---- MODULE Spec2Model ----
(***************************************************************************)
(* Model of src/main.rs of pong-rs: the size tracker ExampleGraph          *)
(* (rebuild / builder) driven once per frame by the rendering system, the  *)
(* per-frame dispatch of the systems registered in main, and the           *)
(* registration of those systems.                                          *)
(*                                                                         *)
(* Four specifications share the module:                                   *)
(*   Spec       the rendering system polling ExampleGraph                  *)
(*   SpecLive   the same frame loop, unbounded, sampling a window that is  *)
(*              resized at any time, with a fair frame loop                *)
(*   SpecSched  one frame after another of the registered systems          *)
(*   SpecReg    registration of a dependency declaration                   *)
(***************************************************************************)
EXTENDS Integers, Sequences, FiniteSets, TLC

VARIABLES
    dimensions,   \* ExampleGraph.dimensions : Option<ScreenDimensions>
    dirty,        \* ExampleGraph.dirty : bool
    pc,           \* where the rendering system is: "poll", "build", "crashed"
    graph,        \* the rendering system's cached graph : Option<graph>
    liveGraphs,   \* number of built graphs whose resources are not released
    surface,      \* the window's current dimensions (SpecLive only)
    polls,        \* history: the samples passed to rebuild, in order
    rets,         \* history: what each rebuild call returned
    status,       \* per registered system: "pending", "running", "done"
    ctx,          \* per registered system: the context it runs / ran on this frame
    access,       \* per registered system: "shared" or "exclusive"
    frame,        \* number of completed frames
    renderCtxs,   \* history: the contexts the thread-local system has run on
    decl,         \* the declaration handed to registration
    regState,     \* "building", "accepted", "rejected"
    order,        \* the execution order computed at registration
    ran           \* the systems of `order` run so far in the first frame

trackerVars == <<dimensions, dirty, pc, graph, liveGraphs, surface, polls, rets>>
schedVars == <<status, ctx, access, frame, renderCtxs>>
regVars == <<decl, regState, order, ran>>
vars == <<trackerVars, schedVars, regVars>>

(***************************************************************************)
(* Bounds of the model.                                                    *)
(***************************************************************************)
MaxPolls == 5
MaxFrames == 2

(***************************************************************************)
(* Option<T> is a sequence of length at most one.                          *)
(***************************************************************************)
None == <<>>
Some(x) == <<x>>
unwrap(o) == o[1]

\* ScreenDimensions: width and height; the samples a frame can observe.
Widths == {800, 1024}
Heights == {600, 768}
ScreenDimensions == Widths \X Heights
Samples == {None} \cup {Some(d) : d \in ScreenDimensions}

(***************************************************************************)
(* ExampleGraph::rebuild, lines 81-91, as three functions of the state     *)
(* before the call and the fetched sample: the new dirty, the new          *)
(* dimensions and the returned value.                                      *)
(***************************************************************************)
rebuild_changed_absent_differs(dim, new) == dim # new \/ new = None
rebuild_changed_width_only(dim, new) ==
    IF dim = None \/ new = None THEN dim # new ELSE unwrap(dim)[1] # unwrap(new)[1]
rebuild_changed(dim, new) == dim # new

rebuild_dirty_keep(dim, drt, new) == drt
rebuild_dirty_clear(dim, drt, new) == rebuild_changed(dim, new)
rebuild_dirty(dim, drt, new) ==
    IF rebuild_changed(dim, new) THEN TRUE ELSE drt

rebuild_dimensions_stale(dim, new) == dim
rebuild_dimensions(dim, new) ==
    IF rebuild_changed(dim, new) THEN new ELSE dim

rebuild_ret_fallthrough(dim, drt, new) == rebuild_dirty(dim, drt, new)
rebuild_ret(dim, drt, new) ==
    IF rebuild_changed(dim, new) THEN FALSE ELSE drt

(***************************************************************************)
(* ExampleGraph::builder, lines 95-149: clears dirty (105), unwraps the    *)
(* stored dimensions (109: a panic when they are None) and declares the    *)
(* images with Kind::D2(width, height, 1, 1) (110).                        *)
(***************************************************************************)
builder_dirty_keep(drt) == drt
builder_dirty(drt) == FALSE

builder_panics(dim) == dim = None

window_kind(dim) == <<unwrap(dim)[1], unwrap(dim)[2], 1, 1>>

\* Lines 117-146: two images of the same kind, the subpass node with its two
\* groups, colour and depth attachments, and the present node that takes the
\* colour image and depends on the pass.
graph_of(kind, groups) ==
    [images |->
        << [id |-> "color", kind |-> kind, levels |-> 1,
            format |-> "surface_format", clear |-> "Color(0,0,0,1)"],
           [id |-> "depth", kind |-> kind, levels |-> 1,
            format |-> "D32Sfloat", clear |-> "DepthStencil(1.0,0)"] >>,
     nodes |->
        << [id |-> "pass", type |-> "subpass", groups |-> groups,
            colors |-> <<"color">>, depth_stencil |-> Some("depth"),
            deps |-> {}],
           [id |-> "present", type |-> "present", groups |-> <<>>,
            colors |-> <<"color">>, depth_stencil |-> None,
            deps |-> {"pass"}] >>]

builder_graph_ui_first(dim) == graph_of(window_kind(dim), <<"DrawUi", "DrawFlat2D">>)
builder_graph(dim) == graph_of(window_kind(dim), <<"DrawFlat2D", "DrawUi">>)

(***************************************************************************)
(* The rendering system's use of a GraphCreator: it polls rebuild once per *)
(* frame and calls builder when, and only when, the poll returned true     *)
(* (GetOrRebuild of the design).                                           *)
(***************************************************************************)
GetOrRebuild(r) == IF r THEN "build" ELSE "poll"

\* Section 4.4: storing a newly built graph discards the previous one and
\* releases its resources; the number of graphs released by a replacement.
cache_release_leak(g) == 0
cache_release(g) == IF g = None THEN 0 ELSE 1

TrackerInit ==
    /\ dimensions = None
    /\ dirty = FALSE
    /\ pc = "poll"
    /\ graph = None
    /\ liveGraphs = 0
    /\ surface = None
    /\ polls = <<>>
    /\ rets = <<>>

\* One call of rebuild with the fetched sample `new`, and the rendering
\* system's decision that follows it.
RebuildWith(new) ==
    /\ dirty' = rebuild_dirty(dimensions, dirty, new)
    /\ dimensions' = rebuild_dimensions(dimensions, new)
    /\ pc' = GetOrRebuild(rebuild_ret(dimensions, dirty, new))

Rebuild ==
    /\ pc = "poll"
    /\ Len(polls) < MaxPolls
    /\ \E new \in Samples :
        /\ RebuildWith(new)
        /\ polls' = Append(polls, new)
        /\ rets' = Append(rets, rebuild_ret(dimensions, dirty, new))
    /\ UNCHANGED <<graph, liveGraphs, surface, schedVars, regVars>>

\* The same call in the unbounded frame loop: the sample is the window's
\* current size and no history is kept.
RebuildSurface ==
    /\ pc = "poll"
    /\ RebuildWith(surface)
    /\ UNCHANGED <<graph, liveGraphs, surface, polls, rets, schedVars, regVars>>

\* The window is resized, appears or disappears.
Resize ==
    /\ \E new \in Samples \ {surface} : surface' = new
    /\ UNCHANGED <<dimensions, dirty, pc, graph, liveGraphs, polls, rets,
                   schedVars, regVars>>

Builder ==
    /\ pc = "build"
    /\ dirty' = builder_dirty(dirty)
    /\ IF builder_panics(dimensions)
       THEN /\ pc' = "crashed"
            /\ graph' = graph
            /\ liveGraphs' = liveGraphs
       ELSE /\ pc' = "poll"
            /\ graph' = Some(builder_graph(dimensions))
            /\ liveGraphs' = liveGraphs - cache_release(graph) + 1
    /\ UNCHANGED <<dimensions, surface, polls, rets, schedVars, regVars>>

(***************************************************************************)
(* main, lines 26-58: the systems handed to GameDataBuilder, in order.     *)
(* InputBundle contributes the system that line 41 names "input_system";   *)
(* the rendering system is the one thread-local system.                    *)
(***************************************************************************)
Renderer == "rendering_system"

main_registration_no_input ==
    << [name |-> "sprite_sheet_processor", deps |-> {}, thread_local |-> FALSE],
       [name |-> "paddle_system", deps |-> {"input_system"}, thread_local |-> FALSE],
       [name |-> "ball_system", deps |-> {}, thread_local |-> FALSE],
       [name |-> "collision_system", deps |-> {"paddle_system", "ball_system"},
        thread_local |-> FALSE],
       [name |-> "winner_system", deps |-> {"ball_system"}, thread_local |-> FALSE],
       [name |-> Renderer, deps |-> {}, thread_local |-> TRUE] >>

main_registration_no_ball_dep ==
    << [name |-> "input_system", deps |-> {}, thread_local |-> FALSE],
       [name |-> "sprite_sheet_processor", deps |-> {}, thread_local |-> FALSE],
       [name |-> "paddle_system", deps |-> {"input_system"}, thread_local |-> FALSE],
       [name |-> "ball_system", deps |-> {}, thread_local |-> FALSE],
       [name |-> "collision_system", deps |-> {"paddle_system"},
        thread_local |-> FALSE],
       [name |-> "winner_system", deps |-> {"ball_system"}, thread_local |-> FALSE],
       [name |-> Renderer, deps |-> {}, thread_local |-> TRUE] >>

main_registration_plain_renderer ==
    << [name |-> "input_system", deps |-> {}, thread_local |-> FALSE],
       [name |-> "sprite_sheet_processor", deps |-> {}, thread_local |-> FALSE],
       [name |-> "paddle_system", deps |-> {"input_system"}, thread_local |-> FALSE],
       [name |-> "ball_system", deps |-> {}, thread_local |-> FALSE],
       [name |-> "collision_system", deps |-> {"paddle_system", "ball_system"},
        thread_local |-> FALSE],
       [name |-> "winner_system", deps |-> {"ball_system"}, thread_local |-> FALSE],
       [name |-> Renderer, deps |-> {}, thread_local |-> FALSE] >>

main_registration ==
    << [name |-> "input_system", deps |-> {}, thread_local |-> FALSE],
       [name |-> "sprite_sheet_processor", deps |-> {}, thread_local |-> FALSE],
       [name |-> "paddle_system", deps |-> {"input_system"}, thread_local |-> FALSE],
       [name |-> "ball_system", deps |-> {}, thread_local |-> FALSE],
       [name |-> "collision_system", deps |-> {"paddle_system", "ball_system"},
        thread_local |-> FALSE],
       [name |-> "winner_system", deps |-> {"ball_system"}, thread_local |-> FALSE],
       [name |-> Renderer, deps |-> {}, thread_local |-> TRUE] >>

Entries == {main_registration[i] : i \in 1..Len(main_registration)}
SystemNames == {e.name : e \in Entries}
DispatcherSystems == {e.name : e \in {x \in Entries : ~x.thread_local}}
ThreadLocalSystems == {e.name : e \in {x \in Entries : x.thread_local}}
Deps(t) == UNION {e.deps : e \in {x \in Entries : x.name = t}}

\* Lines 54-55: a thread-local system always executes on the main thread.
MainThread == "main"
Workers == {"worker1", "worker2"}
Idle == "idle"

(***************************************************************************)
(* The scheduler of the design (sections 4.1 and 5).  A system waits until *)
(* its declared dependencies are done for the frame and no running system  *)
(* has a conflicting access need; the thread-local systems run on the main *)
(* thread once every dispatched system is done.                            *)
(***************************************************************************)
AccessModes == {"shared", "exclusive"}

ConflictsExclusiveOnly(a, b) == a = "exclusive" /\ b = "exclusive"
Conflicts(a, b) == a = "exclusive" \/ b = "exclusive"

Running == {t \in SystemNames : status[t] = "running"}
DepsDone(t) == \A u \in Deps(t) \cap SystemNames : status[u] = "done"
Resolved(t) == Deps(t) \subseteq SystemNames
FreeWorkers == Workers \ {ctx[t] : t \in Running}

SchedInit ==
    /\ status = [t \in SystemNames |-> "pending"]
    /\ ctx = [t \in SystemNames |-> Idle]
    /\ access \in [SystemNames -> AccessModes]
    /\ frame = 0
    /\ renderCtxs = {}

Start ==
    /\ frame < MaxFrames
    /\ \E t \in DispatcherSystems, w \in FreeWorkers :
        /\ status[t] = "pending"
        /\ Resolved(t)
        /\ DepsDone(t)
        /\ \A u \in Running : ~Conflicts(access[t], access[u])
        /\ status' = [status EXCEPT ![t] = "running"]
        /\ ctx' = [ctx EXCEPT ![t] = w]
        /\ renderCtxs' = IF t = Renderer THEN renderCtxs \cup {w} ELSE renderCtxs
    /\ UNCHANGED <<access, frame, trackerVars, regVars>>

StartThreadLocal ==
    /\ frame < MaxFrames
    /\ \E t \in ThreadLocalSystems :
        /\ status[t] = "pending"
        /\ \A u \in DispatcherSystems : status[u] = "done"
        /\ Running = {}
        /\ status' = [status EXCEPT ![t] = "running"]
        /\ ctx' = [ctx EXCEPT ![t] = MainThread]
        /\ renderCtxs' = IF t = Renderer THEN renderCtxs \cup {MainThread}
                         ELSE renderCtxs
    /\ UNCHANGED <<access, frame, trackerVars, regVars>>

Finish ==
    /\ \E t \in Running :
        /\ status' = [status EXCEPT ![t] = "done"]
        /\ ctx' = [ctx EXCEPT ![t] = Idle]
    /\ UNCHANGED <<access, frame, renderCtxs, trackerVars, regVars>>

EndFrame ==
    /\ \A t \in SystemNames : status[t] = "done"
    /\ frame' = frame + 1
    /\ status' = [t \in SystemNames |-> "pending"]
    /\ UNCHANGED <<ctx, access, renderCtxs, trackerVars, regVars>>

(***************************************************************************)
(* Registration (section 4.1): the declared dependencies are sorted        *)
(* topologically at startup; a declaration with a cycle or with a          *)
(* dependency name that is not registered is rejected.                     *)
(***************************************************************************)
MainDecl == [names |-> SystemNames, deps |-> [t \in SystemNames |-> Deps(t)]]

RegNames == {"a", "b", "c"}
Ghost == "ghost"
TestDecls ==
    {[names |-> RegNames, deps |-> f] :
        f \in [RegNames -> SUBSET (RegNames \cup {Ghost})]}

Unresolved(d) == \E t \in d.names : ~(d.deps[t] \subseteq d.names)

RECURSIVE TopoSort(_, _)
TopoSort(d, placed) ==
    LET done == {placed[i] : i \in 1..Len(placed)}
        ready == {t \in d.names \ done : d.deps[t] \subseteq done}
    IN  IF ready = {} THEN placed
        ELSE TopoSort(d, Append(placed, CHOOSE t \in ready : TRUE))

RegInit ==
    /\ decl \in TestDecls \cup {MainDecl}
    /\ regState = "building"
    /\ order = <<>>
    /\ ran = <<>>

Register ==
    /\ regState = "building"
    /\ LET o == TopoSort(decl, <<>>)
       IN  IF Unresolved(decl) \/ Len(o) < Cardinality(decl.names)
           THEN /\ regState' = "rejected"
                /\ order' = <<>>
           ELSE /\ regState' = "accepted"
                /\ order' = o
    /\ UNCHANGED <<decl, ran, trackerVars, schedVars>>

RunNext ==
    /\ regState = "accepted"
    /\ Len(ran) < Len(order)
    /\ ran' = Append(ran, order[Len(ran) + 1])
    /\ UNCHANGED <<decl, regState, order, trackerVars, schedVars>>

(***************************************************************************)
(* The parts a specification leaves alone.                                 *)
(***************************************************************************)
SchedIdle ==
    /\ status = [t \in SystemNames |-> "pending"]
    /\ ctx = [t \in SystemNames |-> Idle]
    /\ access = [t \in SystemNames |-> "shared"]
    /\ frame = 0
    /\ renderCtxs = {}

RegIdle ==
    /\ decl = MainDecl
    /\ regState = "building"
    /\ order = <<>>
    /\ ran = <<>>

Init == TrackerInit /\ SchedIdle /\ RegIdle
Next == Rebuild \/ Builder
Spec == Init /\ [][Next]_vars

InitSched == TrackerInit /\ SchedInit /\ RegIdle
NextSched == Start \/ StartThreadLocal \/ Finish \/ EndFrame
SpecSched == InitSched /\ [][NextSched]_vars

InitReg == TrackerInit /\ SchedIdle /\ RegInit
NextReg == Register \/ RunNext
SpecReg == InitReg /\ [][NextReg]_vars

\* game.run() (line 62) runs frame after frame: a poll or a build that is
\* due is eventually executed.
NextLive == RebuildSurface \/ Builder \/ Resize
SpecLive ==
    /\ Init
    /\ [][NextLive]_vars
    /\ WF_vars(RebuildSurface)
    /\ WF_vars(Builder)

(***************************************************************************)
(* Properties of the size tracker, checked under Spec.                     *)
(***************************************************************************)
NPolls == Len(polls)
Present(s) == s # None
\* The sample the i-th poll is compared with: the one before it, or the
\* initial absent value.
Before(i) == IF i = 1 THEN None ELSE polls[i - 1]
AllEqual(i, j) == \A k \in i..j : polls[k] = polls[i]

\* C1: from the initial state, for samples d0, d1, d1, d1, ... with d1 a
\* dimension value different from d0, the poll that first sees d1 returns
\* false, the next poll with d1 returns true, and every further poll with d1
\* returns false: the change to d1 yields true exactly once.
C1_ChangeYieldsTrueOnce ==
    \A n \in 2..NPolls :
        (Present(polls[2]) /\ polls[1] # polls[2] /\ AllEqual(2, n))
            => rets[n] = (n = 3)

C1_Witness ==
    /\ NPolls = 4
    /\ Present(polls[1])
    /\ Present(polls[2])
    /\ polls[1] # polls[2]
    /\ AllEqual(2, 4)
    /\ rets = <<FALSE, FALSE, TRUE, FALSE>>

\* C2: while every sample differs from the one before it (the first from the
\* initial absent value), every poll returns false.
C2_ThrashNeverRebuilds ==
    \A n \in 1..NPolls :
        (\A i \in 1..n : polls[i] # Before(i)) => rets[n] = FALSE

C2_Witness ==
    /\ NPolls >= 4
    /\ \A i \in 1..NPolls : polls[i] # Before(i)
    /\ \A i \in 1..NPolls : \A j \in 1..NPolls :
           (i < j /\ j <= 4) => polls[i] # polls[j]

\* C3 as stated: from the initial state, every poll of a constant sequence
\* d0, d0, d0, ... returns false.
C3_ConstantNeverRebuilds ==
    \A n \in 1..NPolls : AllEqual(1, n) => rets[n] = FALSE

\* C3 as amended: in a constant sequence the first poll returns false, the
\* second returns true exactly when d0 is present (its first appearance is a
\* change from the initial absent value), and every later poll returns false.
C3_ConstantRebuildsOnceIfPresent ==
    \A n \in 1..NPolls :
        AllEqual(1, n) => rets[n] = (n = 2 /\ Present(polls[1]))

C3_Witness ==
    /\ NPolls = 4
    /\ Present(polls[1])
    /\ AllEqual(1, 4)
    /\ rets = <<FALSE, TRUE, FALSE, FALSE>>
    /\ pc = "poll"

\* C4: after a poll returned true for dimensions d, no poll returns true
\* again before some poll in between has observed dimensions other than d.
C4_NoSecondRebuildWithoutChange ==
    \A i \in 1..NPolls : \A j \in 1..NPolls :
        (i < j /\ rets[i] /\ rets[j])
            => \E k \in (i + 1)..(j - 1) : polls[k] # polls[i]

C4_Witness ==
    \E i \in 1..NPolls : \E j \in 1..NPolls :
        /\ i + 1 < j
        /\ rets[i]
        /\ polls[i + 1] = polls[i]
        /\ rets[j]

\* C5: a poll whose sample is absent returns false and leaves the stored
\* dimensions absent.
C5_AbsentNeverSignals ==
    /\ \A i \in 1..NPolls : polls[i] = None => rets[i] = FALSE
    /\ (NPolls > 0 /\ polls[NPolls] = None) => dimensions = None

\* C6: whenever rebuild has returned true and builder is called, the stored
\* dimensions are present, so the unwrap in builder does not panic.
C6_BuilderNeverUnwrapsNone ==
    /\ pc = "build" => Present(dimensions)
    /\ pc # "crashed"

(***************************************************************************)
(* Properties of the per-frame schedule, checked under SpecSched.          *)
(***************************************************************************)
Started(t) == status[t] # "pending"
Done(t) == status[t] = "done"

\* C7: in every frame a system has started only if its declared dependencies
\* are done for that frame: paddle_system after input_system,
\* collision_system after paddle_system and ball_system, winner_system after
\* ball_system.
C7_DependenciesCompleteFirst ==
    /\ Started("paddle_system") => Done("input_system")
    /\ Started("collision_system")
           => Done("paddle_system") /\ Done("ball_system")
    /\ Started("winner_system") => Done("ball_system")

C7_Witness ==
    /\ status["collision_system"] = "running"
    /\ status["sprite_sheet_processor"] = "running"
    /\ status["winner_system"] = "pending"
    /\ frame = 1

\* C8: in every frame the thread-local rendering system has started only if
\* every other registered system is done for that frame, and over all frames
\* it has run on one and the same context.
C8_RendererLastOnOneContext ==
    /\ Started(Renderer) =>
           \A t \in {"input_system", "sprite_sheet_processor", "paddle_system",
                     "ball_system", "collision_system", "winner_system"} :
               Done(t)
    /\ Cardinality(renderCtxs) <= 1

C8_Witness ==
    /\ frame = 1
    /\ status[Renderer] = "running"
    /\ ctx[Renderer] = MainThread
    /\ renderCtxs = {MainThread}

\* C9: no two systems run at the same time when one of them needs exclusive
\* access to the shared simulation state, whether or not a dependency edge
\* joins them.
C9_NoConflictingOverlap ==
    \A t \in SystemNames : \A u \in SystemNames :
        (t # u /\ status[t] = "running" /\ status[u] = "running")
            => (access[t] = "shared" /\ access[u] = "shared")

C9_Witness ==
    /\ status["paddle_system"] = "running"
    /\ access["paddle_system"] = "exclusive"
    /\ status["ball_system"] = "pending"
    /\ status["sprite_sheet_processor"] = "done"
    /\ FreeWorkers # {}

(***************************************************************************)
(* Properties of registration, checked under SpecReg.                      *)
(***************************************************************************)
RECURSIVE ReachableDeps(_, _, _)
ReachableDeps(d, S, n) ==
    IF n = 0 THEN S
    ELSE ReachableDeps(d, S \cup UNION {d.deps[u] : u \in S \cap d.names}, n - 1)

HasCycle(d) ==
    \E t \in d.names :
        t \in ReachableDeps(d, d.deps[t], Cardinality(d.names))

NamesUnregistered(d) == \E t \in d.names : \E u \in d.deps[t] : u \notin d.names

Position(t) == CHOOSE i \in 1..Len(order) : order[i] = t

\* C10: registration rejects, before any system has run, exactly the
\* declarations with a cycle or with an unregistered dependency name; the
\* order computed for an accepted declaration, the one of main included,
\* lists every system once and after all of its declared dependencies.
C10_RegistrationValidatesAndOrders ==
    /\ regState = "rejected" <=>
           (regState # "building" /\ (HasCycle(decl) \/ NamesUnregistered(decl)))
    /\ ran # <<>> => regState = "accepted"
    /\ regState = "accepted" =>
           /\ Len(order) = Cardinality(decl.names)
           /\ {order[i] : i \in 1..Len(order)} = decl.names
           /\ \A t \in decl.names : \A u \in decl.deps[t] :
                  Position(u) < Position(t)
    /\ (decl = MainDecl /\ regState # "building") => regState = "accepted"

C10_Witness ==
    /\ decl = MainDecl
    /\ regState = "accepted"
    /\ ran = order
    /\ Len(order) = 7

(***************************************************************************)
(* Properties of the cached graph and of single calls, checked under Spec. *)
(***************************************************************************)
\* The i-th poll returned true and the build it asked for has completed.
BuildCompleted(i) == rets[i] /\ Present(polls[i]) /\ (i < NPolls \/ pc = "poll")
CompletedBuilds == {i \in 1..NPolls : BuildCompleted(i)}
LastSample == polls[NPolls]
SizeOf(g) == <<g.images[1].kind[1], g.images[1].kind[2]>>

\* C11 as stated: in every reachable state exactly one graph is live.
C11_ExactlyOneLiveGraph == liveGraphs = 1

\* C11 as amended: at most one graph is live at any time: none until the
\* first build has completed and exactly one from then on, the cached one;
\* a graph that a rebuild replaces is released when the new one is stored.
C11_AtMostOneLiveGraph ==
    /\ liveGraphs = (IF graph = None THEN 0 ELSE 1)
    /\ (graph # None) <=> (CompletedBuilds # {})

C11_Witness ==
    /\ Cardinality(CompletedBuilds) >= 2
    /\ liveGraphs = 1
    /\ pc = "poll"

Indices(seq, P(_)) == {i \in 1..Len(seq) : P(seq[i])}
IsColorImage(img) == img.format = "surface_format"
IsDepthImage(img) == img.format = "D32Sfloat"
IsPass(n) == n.type = "subpass"
IsPresent(n) == n.type = "present"

RECURSIVE NodeReach(_, _, _)
NodeReach(g, S, n) ==
    IF n = 0 THEN S
    ELSE NodeReach(g,
             S \cup UNION {g.nodes[i].deps :
                              i \in {j \in 1..Len(g.nodes) : g.nodes[j].id \in S}},
             n - 1)

WellFormedGraph(g) ==
    LET colorIx == Indices(g.images, IsColorImage)
        depthIx == Indices(g.images, IsDepthImage)
        passIx == Indices(g.nodes, IsPass)
        presentIx == Indices(g.nodes, IsPresent)
        ids == {g.nodes[i].id : i \in 1..Len(g.nodes)}
    IN  /\ Cardinality(colorIx) = 1
        /\ Cardinality(depthIx) = 1
        /\ Len(g.images) = 2
        /\ Cardinality(passIx) = 1
        /\ Cardinality(presentIx) = 1
        /\ Len(g.nodes) = 2
        /\ \A c \in colorIx : \A d \in depthIx : \A p \in passIx :
               \A q \in presentIx :
               /\ g.images[c].kind = g.images[d].kind
               /\ g.images[c].kind[1] > 0 /\ g.images[c].kind[2] > 0
               /\ g.nodes[p].colors = <<g.images[c].id>>
               /\ g.nodes[p].depth_stencil = Some(g.images[d].id)
               /\ g.nodes[p].groups = <<"DrawFlat2D", "DrawUi">>
               /\ g.nodes[q].deps = {g.nodes[p].id}
               \* acyclic, and the present node is the only sink
               /\ \A i \in 1..Len(g.nodes) :
                      g.nodes[i].id \notin
                          NodeReach(g, g.nodes[i].deps, Len(g.nodes))
               /\ {x \in ids : \A i \in 1..Len(g.nodes) : x \notin g.nodes[i].deps}
                      = {g.nodes[q].id}

\* C12: a graph built for dimensions (w, h) holds exactly one colour image
\* and one depth image, both w x h, exactly one pass attaching both with the
\* draw groups [sprite, UI] in that order, and exactly one present node whose
\* only predecessor is the pass; it is acyclic with the present node as its
\* only sink.
C12_BuiltGraphShape ==
    /\ graph # None => WellFormedGraph(unwrap(graph))
    /\ (NPolls > 0 /\ BuildCompleted(NPolls)) =>
           /\ SizeOf(unwrap(graph)) = unwrap(dimensions)
           /\ unwrap(graph).images[2].kind
                  = <<unwrap(dimensions)[1], unwrap(dimensions)[2], 1, 1>>

C12_Witness ==
    /\ NPolls > 0
    /\ BuildCompleted(NPolls)
    /\ dimensions = Some(<<800, 600>>)
    /\ SizeOf(unwrap(graph)) = <<800, 600>>

C14_ChangedPollSetsDirty ==
    [][(polls' # polls /\ polls'[Len(polls')] # dimensions) =>
           /\ dirty'
           /\ dimensions' = polls'[Len(polls')]
           /\ rets'[Len(rets')] = FALSE]_vars

C14_Witness ==
    /\ NPolls >= 3
    /\ polls[NPolls - 2] # Before(NPolls - 2)
    /\ Present(polls[NPolls - 2])
    /\ polls[NPolls - 1] = None
    /\ Present(polls[NPolls])
    /\ dirty
    /\ dimensions = LastSample
    /\ rets[NPolls] = FALSE

\* C15: a poll returns true only if it is not the first, its sample equals
\* the sample of the poll just before it, and some earlier poll observed a
\* change with no poll returning true since.
C15_TrueOnlyOnRepeatAfterChange ==
    \A n \in 1..NPolls :
        rets[n] =>
            /\ n >= 2
            /\ polls[n] = Before(n)
            /\ \E k \in 1..(n - 1) :
                   /\ polls[k] # Before(k)
                   /\ \A j \in (k + 1)..(n - 1) : ~rets[j]

C15_Witness ==
    /\ NPolls >= 4
    /\ rets[NPolls]
    /\ \E i \in 1..(NPolls - 2) : rets[i]

\* C16: while every sample since the initial state is absent, every poll
\* returns false and the state stays {dimensions = None, dirty = false}.
C16_AbsentFromStartIsNoOp ==
    /\ \A n \in 1..NPolls : AllEqual(1, n) /\ polls[1] = None => rets[n] = FALSE
    /\ (\A i \in 1..NPolls : polls[i] = None) =>
           /\ dimensions = None
           /\ dirty = FALSE
           /\ pc = "poll"

C16_Witness ==
    /\ NPolls = 3
    /\ \A i \in 1..3 : polls[i] = None
    /\ rets = <<FALSE, FALSE, FALSE>>

C18_GraphReplacedIffPollTrue ==
    [][/\ pc = "build" =>
              /\ Present(dimensions)
              /\ graph' = Some(builder_graph(dimensions))
       /\ pc = "poll" => graph' = graph]_vars

\* C19: when builder is called after a poll that returned true, the stored
\* dimensions are the sample of that poll, and the images it declares have
\* that size.
C19_BuiltForTheSampledSize ==
    /\ pc = "build" => dimensions = LastSample
    /\ (NPolls > 0 /\ BuildCompleted(NPolls)) =>
           \A i \in 1..Len(unwrap(graph).images) :
               unwrap(graph).images[i].kind
                   = <<unwrap(LastSample)[1], unwrap(LastSample)[2], 1, 1>>

C19_Witness ==
    /\ NPolls > 0
    /\ BuildCompleted(NPolls)
    /\ \E i \in CompletedBuilds : polls[i] # LastSample
    /\ SizeOf(unwrap(graph)) = unwrap(LastSample)

(***************************************************************************)
(* Liveness, under SpecLive.                                               *)
(***************************************************************************)
GraphFor(d) == graph # None /\ SizeOf(unwrap(graph)) = d

\* C20: if from some frame on the window keeps the present size d, then the
\* cached graph is eventually, and from then on, one built for d.
C20_StableSizeIsEventuallyBuilt ==
    \A d \in ScreenDimensions :
        []((pc = "poll" /\ [](surface = Some(d))) => <>[]GraphFor(d))

C20_Witness ==
    /\ surface = Some(<<1024, 768>>)
    /\ GraphFor(<<1024, 768>>)
    /\ dimensions = surface
    /\ ~dirty
    /\ pc = "poll"

====
